---- MODULE Spec2Model ----
(***************************************************************************)
(* unocss-preset-calc (src/src/preset-calc.ts): a UnoCSS preset that turns *)
(* the numeric token of a utility class name into a CSS calc() expression. *)
(*                                                                         *)
(* JavaScript strings are sequences of one-character strings, so that      *)
(* template literals, Number(string) and number-to-string conversion are   *)
(* modelled by what they do.  JavaScript values are tagged records.        *)
(***************************************************************************)
EXTENDS Integers, Sequences, FiniteSets, TLC

VARIABLES
    DEFAULT_OPTIONS,   \* the module-level object DEFAULT_OPTIONS (also exported as `options`)
    presets,           \* the presets built so far: each holds its closure's presetOptions
    last               \* the last call made and what it returned or threw

vars == <<DEFAULT_OPTIONS, presets, last>>

-----------------------------------------------------------------------------
(* Bounds of the model. *)

\* How many presets are built in one run.
MaxPresets == 2

\* Longest numeric token drawn over the token alphabet.
MaxTokLen == 2

-----------------------------------------------------------------------------
(* JavaScript values. *)

Undefined == [t |-> "undefined"]
Null == [t |-> "null"]
Str(s) == [t |-> "string", s |-> s]
Obj(f) == [t |-> "object", o |-> f]
Arr(a) == [t |-> "array", a |-> a]

\* A finite number is (-1)^neg * m / 10^e, with e = 0 or m not a multiple of 10.
Fin(neg, m, e) == [t |-> "number", k |-> "fin", neg |-> neg, m |-> m, e |-> e]
IntNum(n) == IF n < 0 THEN Fin(TRUE, -n, 0) ELSE Fin(FALSE, n, 0)
NegZero == Fin(TRUE, 0, 0)
NaN == [t |-> "number", k |-> "nan", neg |-> FALSE, m |-> 0, e |-> 0]
PosInfinity == [t |-> "number", k |-> "inf", neg |-> FALSE, m |-> 0, e |-> 0]
NegInfinity == [t |-> "number", k |-> "inf", neg |-> TRUE, m |-> 0, e |-> 0]

\* typeof
TypeOf(v) ==
    CASE v.t = "array" -> "object"
      [] v.t = "null" -> "object"
      [] OTHER -> v.t

\* Array.isArray
IsArray(v) == v.t = "array"

\* isNaN and isFinite on a number
isNaN(v) == v.k = "nan"
isFinite(v) == v.k = "fin"

\* Property read: a missing property reads as undefined.
Get(o, key) == IF key \in DOMAIN o THEN o[key] ELSE Undefined

\* A destructuring default ({ x = d } = o) applies when the property is undefined.
OrDefault(v, d) == IF v = Undefined THEN d ELSE v

\* Object spread { ...a, ...b }: own properties of a, then those of b over them.
Spread(a, b) == [key \in DOMAIN a \cup DOMAIN b |-> IF key \in DOMAIN b THEN b[key] ELSE a[key]]

\* The empty object literal {}.
EmptyObject == [key \in {} |-> Undefined]

-----------------------------------------------------------------------------
(* Number to string, as a template literal `${n}` converts it. *)

DigitChars == <<"0","1","2","3","4","5","6","7","8","9">>

RECURSIVE Pow10(_)
Pow10(e) == IF e = 0 THEN 1 ELSE 10 * Pow10(e - 1)

RECURSIVE NatToString(_)
NatToString(n) ==
    IF n < 10 THEN <<DigitChars[n + 1]>>
    ELSE NatToString(n \div 10) \o <<DigitChars[(n % 10) + 1]>>

\* The e digits of f, zero-padded on the left.
RECURSIVE FractionDigits(_, _)
FractionDigits(f, e) ==
    IF e = 0 THEN <<>>
    ELSE FractionDigits(f \div 10, e - 1) \o <<DigitChars[(f % 10) + 1]>>

\* Number::toString for the numbers of the model (decimal notation: all are
\* of magnitude in [1e-6, 1e21), where JavaScript prints no exponent).
NumberToString(v) ==
    CASE v.k = "nan" -> <<"N","a","N">>
      [] v.k = "inf" -> (IF v.neg THEN <<"-">> ELSE <<>>) \o <<"I","n","f","i","n","i","t","y">>
      [] OTHER ->
           IF v.m = 0 THEN <<"0">>
           ELSE (IF v.neg THEN <<"-">> ELSE <<>>)
                \o NatToString(v.m \div Pow10(v.e))
                \o (IF v.e = 0 THEN <<>> ELSE <<".">> \o FractionDigits(v.m % Pow10(v.e), v.e))

\* ToString (the abstract operation) of a value inside a template literal.
JSToString(v) ==
    CASE v.t = "number" -> NumberToString(v)
      [] v.t = "string" -> v.s
      [] v.t = "undefined" -> <<"u","n","d","e","f","i","n","e","d">>
      [] v.t = "null" -> <<"n","u","l","l">>
      [] OTHER -> <<"[","o","b","j","e","c","t"," ","O","b","j","e","c","t","]">>

-----------------------------------------------------------------------------
(* Results of a call. *)

Return(v) == [c |-> "return", v |-> v]
Throw(msg) == [c |-> "throw", msg |-> msg]

-----------------------------------------------------------------------------
(* DEFAULT_OPTIONS *)

WidthScreen == <<"-","-","w","i","d","t","h","-","s","c","r","e","e","n">>
OneRem == <<"1","r","e","m">>

DefaultPadding == [DEFAULT |-> Str(OneRem), md |-> IntNum(50)]

DEFAULT_OPTIONS_literal ==
    [ CSSglobalVar |-> Str(WidthScreen),
      min          |-> IntNum(0),
      max          |-> IntNum(1920),
      mobileWidth  |-> IntNum(375),
      desktopWidth |-> IntNum(768),
      container    |-> Obj([padding |-> Obj(DefaultPadding)]) ]

\* export const options = DEFAULT_OPTIONS: the same object.
options == DEFAULT_OPTIONS

-----------------------------------------------------------------------------
(* calculate *)

ErrNotFinite == "Value must be a finite number"

calculate_swapped(value, opts) ==
    IF isNaN(value) \/ ~isFinite(value) THEN Throw(ErrNotFinite)
    ELSE LET min == OrDefault(Get(opts, "min"), IntNum(0))
             max == OrDefault(Get(opts, "max"), IntNum(1920))
             CSSglobalVar == OrDefault(Get(opts, "CSSglobalVar"), Str(WidthScreen))
         IN Return(<<"c","a","l","c","(">> \o JSToString(value)
                   \o <<" ","*"," ","c","l","a","m","p","(">> \o JSToString(max)
                   \o <<"p","x",",","1","0","0","v","w",",">> \o JSToString(min)
                   \o <<"p","x",")"," ","/"," ","v","a","r","(">> \o JSToString(CSSglobalVar)
                   \o <<")",")">>)

calculate_unchecked(value, opts) ==
    LET min == OrDefault(Get(opts, "min"), IntNum(0))
        max == OrDefault(Get(opts, "max"), IntNum(1920))
        CSSglobalVar == OrDefault(Get(opts, "CSSglobalVar"), Str(WidthScreen))
    IN Return(<<"c","a","l","c","(">> \o JSToString(value)
              \o <<" ","*"," ","c","l","a","m","p","(">> \o JSToString(min)
              \o <<"p","x",",","1","0","0","v","w",",">> \o JSToString(max)
              \o <<"p","x",")"," ","/"," ","v","a","r","(">> \o JSToString(CSSglobalVar)
              \o <<")",")">>)

calculate(value, opts) ==
    IF isNaN(value) \/ ~isFinite(value) THEN Throw(ErrNotFinite)
    ELSE LET min == OrDefault(Get(opts, "min"), IntNum(0))
             max == OrDefault(Get(opts, "max"), IntNum(1920))
             CSSglobalVar == OrDefault(Get(opts, "CSSglobalVar"), Str(WidthScreen))
         IN Return(<<"c","a","l","c","(">> \o JSToString(value)
                   \o <<" ","*"," ","c","l","a","m","p","(">> \o JSToString(min)
                   \o <<"p","x",",","1","0","0","v","w",",">> \o JSToString(max)
                   \o <<"p","x",")"," ","/"," ","v","a","r","(">> \o JSToString(CSSglobalVar)
                   \o <<")",")">>)

-----------------------------------------------------------------------------
(* setProperties *)

ErrProperties(p) == <<"Properties must be string or string[], received: ", TypeOf(p)>>

\* A reduce whose callback returns a new one-key object instead of acc.
RECURSIVE Reduce_overwrite(_, _, _, _)
Reduce_overwrite(props, acc, value, opts) ==
    IF props = <<>> THEN Return(acc)
    ELSE LET r == calculate(value, opts)
         IN IF r.c = "throw" THEN r
            ELSE Reduce_overwrite(Tail(props), [key \in {Head(props)} |-> r.v], value, opts)

\* properties.reduce((acc, prop) => { acc[prop] = calculate(value, options); return acc }, {})
\* A throw inside the callback leaves reduce at once.
RECURSIVE Reduce(_, _, _, _)
Reduce(props, acc, value, opts) ==
    IF props = <<>> THEN Return(acc)
    ELSE LET r == calculate(value, opts)
         IN IF r.c = "throw" THEN r
            ELSE Reduce(Tail(props), Spread(acc, [key \in {Head(props)} |-> r.v]), value, opts)

setProperties_lenient(value, properties, opts) ==
    IF IsArray(properties) THEN Reduce(properties.a, EmptyObject, value, opts)
    ELSE IF TypeOf(properties) = "string"
         THEN LET r == calculate(value, opts)
              IN IF r.c = "throw" THEN r ELSE Return([key \in {properties.s} |-> r.v])
         ELSE Return(EmptyObject)

setProperties(value, properties, opts) ==
    IF IsArray(properties) THEN Reduce(properties.a, EmptyObject, value, opts)
    ELSE IF TypeOf(properties) = "string"
         THEN LET r == calculate(value, opts)
              IN IF r.c = "throw" THEN r ELSE Return([key \in {properties.s} |-> r.v])
         ELSE Throw(ErrProperties(properties))

-----------------------------------------------------------------------------
(* Number(string), for the strings a rule's group ([\.\d]+) can capture:   *)
(* digits and dots.  StringToNumber accepts digits, digits "." digits?,    *)
(* and "." digits; anything else over this alphabet is NaN.                *)

TokenChars == {"0","1","2","3","4","5","6","7","8","9","."}

DigitValue(ch) == CHOOSE d \in 0..9 : DigitChars[d + 1] = ch

RECURSIVE DigitsToNat(_)
DigitsToNat(s) ==
    IF s = <<>> THEN 0
    ELSE 10 * DigitsToNat(SubSeq(s, 1, Len(s) - 1)) + DigitValue(s[Len(s)])

\* The mathematical value m / 10^e in the model's normal form.
RECURSIVE Normalize(_, _)
Normalize(m, e) ==
    IF e > 0 /\ m % 10 = 0 THEN Normalize(m \div 10, e - 1) ELSE Fin(FALSE, m, e)

Number(s) ==
    LET dots == {i \in 1..Len(s) : s[i] = "."}
    IN  IF s = <<>> THEN IntNum(0)
        ELSE IF Cardinality(dots) > 1 THEN NaN
        ELSE IF dots = {} THEN Fin(FALSE, DigitsToNat(s), 0)
        ELSE LET d == CHOOSE i \in dots : TRUE
                 intPart == SubSeq(s, 1, d - 1)
                 fracPart == SubSeq(s, d + 1, Len(s))
             IN IF intPart = <<>> /\ fracPart = <<>> THEN NaN
                ELSE Normalize(DigitsToNat(intPart \o fracPart), Len(fracPart))

-----------------------------------------------------------------------------
(* The rules' regular expressions: /^-?NAME-([\.\d]+)$/, the leading -?    *)
(* present only in the margin rules.                                       *)

\* The table with a slip in one pattern: /^gap-x-.../ written as /^gap-.../.
RegExp_slip(optionalMinus, name) ==
    [optionalMinus |-> optionalMinus,
     name |-> IF name = <<"g","a","p","-","x">> THEN <<"g","a","p">> ELSE name]

RegExp(optionalMinus, name) == [optionalMinus |-> optionalMinus, name |-> name]

NoMatch == [matched |-> FALSE, groups |-> <<>>]

\* s is NAME "-" followed by one or more characters of [\.\d].
MatchesBody(name, s) ==
    /\ Len(s) > Len(name) + 1
    /\ SubSeq(s, 1, Len(name)) = name
    /\ s[Len(name) + 1] = "-"
    /\ \A i \in (Len(name) + 2)..Len(s) : s[i] \in TokenChars

\* className.match(test): the whole match and the captured group.
Match(test, className) ==
    IF MatchesBody(test.name, className)
    THEN [matched |-> TRUE,
          groups |-> <<className, SubSeq(className, Len(test.name) + 2, Len(className))>>]
    ELSE IF /\ test.optionalMinus
            /\ className # <<>>
            /\ Head(className) = "-"
            /\ MatchesBody(test.name, Tail(className))
         THEN [matched |-> TRUE,
               groups |-> <<className, SubSeq(className, Len(test.name) + 3, Len(className))>>]
         ELSE NoMatch

-----------------------------------------------------------------------------
(* createRule: the rule [test, handler]; the handler closes over           *)
(* properties and options.                                                 *)

createRule(test, properties, opts) ==
    [test |-> test, properties |-> properties, options |-> opts]

\* ([_, num]) => setProperties(Number(num), properties, options)
handler(rule, groups) ==
    setProperties(Number(groups[2]), rule.properties, rule.options)

-----------------------------------------------------------------------------
(* presetCalc: the merged options, the preamble, the rules, extendTheme.   *)

\* a?.key
OptGet(v, key) == IF v.t = "object" THEN Get(v.o, key) ELSE Undefined

\* The own properties a spread copies: none for undefined or null.
Own(v) == IF v.t = "object" THEN v.o ELSE EmptyObject

presetOptions_shallow(defaultValues) ==
    Spread(DEFAULT_OPTIONS, Own(defaultValues))

presetOptions_ignoring(defaultValues) ==
    DEFAULT_OPTIONS

presetOptions(defaultValues) ==
    Spread(
        Spread(DEFAULT_OPTIONS, Own(defaultValues)),
        [ container |->
            Obj(Spread(
                Spread(Own(DEFAULT_OPTIONS.container), Own(OptGet(defaultValues, "container"))),
                [ padding |->
                    Obj(Spread(
                        Own(DEFAULT_OPTIONS.container.o.padding),
                        Own(OptGet(OptGet(defaultValues, "container"), "padding")))) ])) ])

\* What the call leaves in DEFAULT_OPTIONS: the spreads copy into fresh
\* object literals, so no property of DEFAULT_OPTIONS is written.
DefaultsAfterPresetCalc(defaultValues) ==
    DEFAULT_OPTIONS

\* The literal text of the preamble's template, between its placeholders.
T1 == <<"\n"," "," "," "," "," "," "," "," "," "," "," "," ",":","r","o","o","t"," ","{","\n"," "," "," "," "," "," "," "," "," "," "," "," "," "," ">>
T2 == <<":"," ">>
T3 == <<";","\n"," "," "," "," "," "," "," "," "," "," "," "," ","}","\n"," "," "," "," "," "," "," "," "," "," "," "," ","@","m","e","d","i","a"," ","(","w","i","d","t","h"," ",">","="," ">>
T4 == <<"p","x",")"," ","{","\n"," "," "," "," "," "," "," "," "," "," "," "," "," "," ",":","r","o","o","t"," ","{","\n"," "," "," "," "," "," "," "," "," "," "," "," "," "," "," "," ">>
T5 == <<";","\n"," "," "," "," "," "," "," "," "," "," "," "," "," "," ","}","\n"," "," "," "," "," "," "," "," "," "," "," "," ","}","\n"," "," "," "," "," "," "," "," "," "," ">>

getCSS_defaults(po) ==
    LET CSSglobalVar == Get(DEFAULT_OPTIONS_literal, "CSSglobalVar")
        mobileWidth == Get(DEFAULT_OPTIONS_literal, "mobileWidth")
        desktopWidth == Get(DEFAULT_OPTIONS_literal, "desktopWidth")
        max == Get(DEFAULT_OPTIONS_literal, "max")
    IN  T1 \o JSToString(CSSglobalVar)
        \o T2 \o JSToString(mobileWidth)
        \o T3 \o JSToString(desktopWidth)
        \o T4 \o JSToString(CSSglobalVar)
        \o T2 \o JSToString(max)
        \o T5

getCSS(po) ==
    LET CSSglobalVar == Get(po, "CSSglobalVar")
        mobileWidth == Get(po, "mobileWidth")
        desktopWidth == Get(po, "desktopWidth")
        max == Get(po, "max")
    IN  T1 \o JSToString(CSSglobalVar)
        \o T2 \o JSToString(mobileWidth)
        \o T3 \o JSToString(desktopWidth)
        \o T4 \o JSToString(CSSglobalVar)
        \o T2 \o JSToString(max)
        \o T5

ruleTable ==
    <<
       [test |-> RegExp(FALSE, <<"t","e","x","t">>), properties |-> Str("font-size")],
       [test |-> RegExp(FALSE, <<"l","e","a","d","i","n","g">>), properties |-> Str("line-height")],
       [test |-> RegExp(FALSE, <<"w">>), properties |-> Str("width")],
       [test |-> RegExp(FALSE, <<"m","a","x","-","w">>), properties |-> Str("max-width")],
       [test |-> RegExp(FALSE, <<"m","i","n","-","w">>), properties |-> Str("min-width")],
       [test |-> RegExp(FALSE, <<"h">>), properties |-> Str("height")],
       [test |-> RegExp(FALSE, <<"m","a","x","-","h">>), properties |-> Str("max-height")],
       [test |-> RegExp(FALSE, <<"m","i","n","-","h">>), properties |-> Str("min-height")],
       [test |-> RegExp(FALSE, <<"s","i","z","e">>), properties |-> Arr(<<"width", "height">>)],
       [test |-> RegExp(FALSE, <<"g","a","p">>), properties |-> Str("gap")],
       [test |-> RegExp(FALSE, <<"g","a","p","-","x">>), properties |-> Str("column-gap")],
       [test |-> RegExp(FALSE, <<"g","a","p","-","y">>), properties |-> Str("row-gap")],
       [test |-> RegExp(FALSE, <<"b","o","r","d","e","r">>), properties |-> Str("border-width")],
       [test |-> RegExp(FALSE, <<"b","o","r","d","e","r","-","t">>), properties |-> Str("border-top-width")],
       [test |-> RegExp(FALSE, <<"b","o","r","d","e","r","-","r">>), properties |-> Str("border-right-width")],
       [test |-> RegExp(FALSE, <<"b","o","r","d","e","r","-","b">>), properties |-> Str("border-bottom-width")],
       [test |-> RegExp(FALSE, <<"b","o","r","d","e","r","-","l">>), properties |-> Str("border-left-width")],
       [test |-> RegExp(FALSE, <<"b","o","r","d","e","r","-","y">>), properties |-> Arr(<<"border-top-width", "border-bottom-width">>)],
       [test |-> RegExp(FALSE, <<"b","o","r","d","e","r","-","x">>), properties |-> Arr(<<"border-left-width", "border-right-width">>)],
       [test |-> RegExp(FALSE, <<"r","o","u","n","d","e","d">>), properties |-> Str("border-radius")],
       [test |-> RegExp(FALSE, <<"r","o","u","n","d","e","d","-","t","l">>), properties |-> Str("border-top-left-radius")],
       [test |-> RegExp(FALSE, <<"r","o","u","n","d","e","d","-","t","r">>), properties |-> Str("border-top-right-radius")],
       [test |-> RegExp(FALSE, <<"r","o","u","n","d","e","d","-","b","l">>), properties |-> Str("border-bottom-left-radius")],
       [test |-> RegExp(FALSE, <<"r","o","u","n","d","e","d","-","b","r">>), properties |-> Str("border-bottom-right-radius")],
       [test |-> RegExp(FALSE, <<"r","o","u","n","d","e","d","-","t">>), properties |-> Arr(<<"border-top-left-radius", "border-top-right-radius">>)],
       [test |-> RegExp(FALSE, <<"r","o","u","n","d","e","d","-","l">>), properties |-> Arr(<<"border-top-left-radius", "border-bottom-left-radius">>)],
       [test |-> RegExp(FALSE, <<"r","o","u","n","d","e","d","-","r">>), properties |-> Arr(<<"border-top-right-radius", "border-bottom-right-radius">>)],
       [test |-> RegExp(FALSE, <<"r","o","u","n","d","e","d","-","b">>), properties |-> Arr(<<"border-bottom-left-radius", "border-bottom-right-radius">>)],
       [test |-> RegExp(FALSE, <<"t","o","p">>), properties |-> Str("top")],
       [test |-> RegExp(FALSE, <<"l","e","f","t">>), properties |-> Str("left")],
       [test |-> RegExp(FALSE, <<"b","o","t","t","o","m">>), properties |-> Str("bottom")],
       [test |-> RegExp(FALSE, <<"r","i","g","h","t">>), properties |-> Str("right")],
       [test |-> RegExp(TRUE, <<"m">>), properties |-> Str("margin")],
       [test |-> RegExp(TRUE, <<"m","t">>), properties |-> Str("margin-top")],
       [test |-> RegExp(TRUE, <<"m","l">>), properties |-> Str("margin-left")],
       [test |-> RegExp(TRUE, <<"m","r">>), properties |-> Str("margin-right")],
       [test |-> RegExp(TRUE, <<"m","b">>), properties |-> Str("margin-bottom")],
       [test |-> RegExp(TRUE, <<"m","x">>), properties |-> Arr(<<"margin-left", "margin-right">>)],
       [test |-> RegExp(TRUE, <<"m","y">>), properties |-> Arr(<<"margin-top", "margin-bottom">>)],
       [test |-> RegExp(FALSE, <<"p">>), properties |-> Str("padding")],
       [test |-> RegExp(FALSE, <<"p","t">>), properties |-> Str("padding-top")],
       [test |-> RegExp(FALSE, <<"p","l">>), properties |-> Str("padding-left")],
       [test |-> RegExp(FALSE, <<"p","r">>), properties |-> Str("padding-right")],
       [test |-> RegExp(FALSE, <<"p","b">>), properties |-> Str("padding-bottom")],
       [test |-> RegExp(FALSE, <<"p","x">>), properties |-> Arr(<<"padding-left", "padding-right">>)],
       [test |-> RegExp(FALSE, <<"p","y">>), properties |-> Arr(<<"padding-top", "padding-bottom">>)]
    >>

NumRules == Len(ruleTable)

\* rules: createRule(test, properties, presetOptions) for each line of the table;
\* every handler closes over the same presetOptions object.
rules(po) ==
    [r \in 1..NumRules |-> createRule(ruleTable[r].test, ruleTable[r].properties, po)]

\* The rules whose pattern matches a class name.
MatchingRules(className) ==
    {r \in 1..NumRules : Match(ruleTable[r].test, className).matched}

\* Truthiness, as `if (x)` and `x || y` test it.
Truthy(v) ==
    CASE v.t = "undefined" -> FALSE
      [] v.t = "null" -> FALSE
      [] v.t = "boolean" -> v.b
      [] v.t = "string" -> v.s # <<>>
      [] v.t = "number" -> v.k = "inf" \/ (v.k = "fin" /\ v.m # 0)
      [] OTHER -> TRUE

Bool(b) == [t |-> "boolean", b |-> b]

\* Object.entries: the own properties of an object; the indexed characters
\* of a string (strings shorter than ten characters); none otherwise.
Entries(v) ==
    CASE v.t = "object" -> v.o
      [] v.t = "string" -> [key \in {DigitChars[i] : i \in 1..Len(v.s)} |->
                               Str(<<v.s[DigitValue(key) + 1]>>)]
      [] OTHER -> EmptyObject

paddingKeys == <<"sm", "md", "lg", "xl", "2xl">>

\* paddingKeys.forEach(key => { ... newPadding[key] = calculate(value, presetOptions) })
RECURSIVE ApplyCalc(_, _, _)
ApplyCalc(keys, newPadding, po) ==
    IF keys = <<>> THEN Return(newPadding)
    ELSE LET value == OptGet(OptGet(Get(po, "container"), "padding"), Head(keys))
         IN IF TypeOf(value) = "number"
            THEN LET r == calculate(value, po)
                 IN IF r.c = "throw" THEN r
                    ELSE ApplyCalc(Tail(keys),
                                   Spread(newPadding, [key \in {Head(keys)} |-> Str(r.v)]), po)
            ELSE ApplyCalc(Tail(keys), newPadding, po)

\* A buildContainerPadding that starts from the empty table and does not
\* copy the theme's own padding entries.
buildContainerPadding_noCopy(theme, po) ==
    LET configured == OptGet(OptGet(Get(po, "container"), "padding"), "DEFAULT")
        withDefault == IF Truthy(configured)
                       THEN [DEFAULT |-> configured]
                       ELSE EmptyObject
    IN  ApplyCalc(paddingKeys, withDefault, po)

buildContainerPadding(theme, po) ==
    LET given == OptGet(OptGet(theme, "container"), "padding")
        basePadding == IF Truthy(given) THEN given ELSE Obj(EmptyObject)
        entries == Entries(basePadding)
        copied == [key \in DOMAIN entries |->
                      IF TypeOf(entries[key]) = "string" THEN entries[key]
                      ELSE Str(JSToString(entries[key]))]
        configured == OptGet(OptGet(Get(po, "container"), "padding"), "DEFAULT")
        withDefault == IF Truthy(configured)
                       THEN Spread(copied, [DEFAULT |-> configured])
                       ELSE copied
    IN  ApplyCalc(paddingKeys, withDefault, po)

Percent100 == <<"1","0","0","%">>
Px == <<"p","x">>

\* An extendTheme that stores the computed padding in the preset's own
\* options (presetOptions.container.padding) instead of a fresh object.
extendTheme_inplace(theme, po) ==
    LET padding == buildContainerPadding(theme, po)
    IN  [ ret |-> IF padding.c = "throw" THEN padding
                  ELSE Return(Obj(Spread(Own(theme),
                         [container |-> Obj([padding |-> Obj(padding.v)])]))),
          theme |-> theme,
          presetOptions |-> IF padding.c = "throw" THEN po
                            ELSE Spread(po, [container |-> Obj([padding |-> Obj(padding.v)])]) ]

\* extendTheme: what it returns (or throws), and the theme and the preset's
\* options as the call leaves them: it builds fresh objects and writes to
\* neither.
extendTheme(theme, po) ==
    LET padding == buildContainerPadding(theme, po)
        container == OptGet(theme, "container")
        given == OptGet(container, "maxWidth")
        maxWidth == Spread(Own(IF Truthy(given) THEN given ELSE Obj(EmptyObject)),
                           ("md" :> Str(Percent100))
                           @@ ("2xl" :> Str(JSToString(Get(po, "max")) \o Px)))
    IN  [ ret |-> IF padding.c = "throw" THEN padding
                  ELSE Return(Obj(Spread(Own(theme),
                         [ container |->
                             Obj(Spread(Own(IF Truthy(container) THEN container ELSE Obj(EmptyObject)),
                                        [ padding  |-> Obj(padding.v),
                                          maxWidth |-> Obj(maxWidth),
                                          center   |-> Bool(TRUE) ])) ]))),
          theme |-> theme,
          presetOptions |-> po ]

-----------------------------------------------------------------------------
(* The inputs the model draws. *)

MaxProps == 2

ShortVar == <<"-","-","w">>

\* Numbers handed to calculate: 100, 50, 0, -0, -10, 1.5, -0.25, 256 and
\* the three non-finite ones.
Values ==
    { IntNum(100), IntNum(50), IntNum(0), NegZero, IntNum(-10), Fin(FALSE, 15, 1),
      Fin(TRUE, 25, 2), IntNum(256), NaN, PosInfinity, NegInfinity }

\* Options objects handed to calculate and setProperties.
FullConfigs ==
    { [min |-> a, max |-> b, CSSglobalVar |-> Str(c)] :
        a \in {IntNum(0), IntNum(375), Fin(FALSE, 3205, 1), IntNum(2000)},
        b \in {IntNum(1920), IntNum(1200)},
        c \in {WidthScreen, ShortVar} }

PartialConfigs ==
    { EmptyObject,
      [max |-> IntNum(1200)],
      [min |-> Undefined, max |-> Undefined, CSSglobalVar |-> Undefined],
      [min |-> IntNum(375), CSSglobalVar |-> Str(ShortVar)] }

Configs == FullConfigs \cup PartialConfigs \cup {DEFAULT_OPTIONS_literal}

PropertyNames == {"a", "b", "width"}

RECURSIVE SeqsUpTo(_, _)
SeqsUpTo(S, n) ==
    IF n = 0 THEN {<<>>}
    ELSE LET shorter == SeqsUpTo(S, n - 1)
         IN shorter \cup {Append(s, x) : s \in {q \in shorter : Len(q) = n - 1}, x \in S}

\* The properties argument: a name, a list of names, or something else.
PropertyArgs ==
    {Str(p) : p \in PropertyNames}
    \cup {Arr(l) : l \in SeqsUpTo(PropertyNames, MaxProps)}
    \cup {Undefined, Null, IntNum(5), Obj(EmptyObject), Bool(TRUE)}

\* The argument of presetCalc.
PaddingOverride(p) == Obj([container |-> Obj([padding |-> Obj(p)])])

Overrides ==
    { Undefined,
      Obj([max |-> IntNum(1200)]),
      Obj([max |-> IntNum(1200),
           container |-> Obj([padding |-> Obj([DEFAULT |-> Str(OneRem), md |-> IntNum(50),
                                               lg |-> IntNum(100)])])]),
      Obj([min |-> IntNum(2000)]),
      Obj([min |-> IntNum(320), max |-> IntNum(1440), CSSglobalVar |-> Str(ShortVar),
           mobileWidth |-> IntNum(390), desktopWidth |-> IntNum(1024)]),
      Obj([max |-> Undefined]),
      PaddingOverride([sm |-> IntNum(20), md |-> IntNum(80)]),
      PaddingOverride([DEFAULT |-> Str(<<"2","r","e","m">>)]),
      PaddingOverride([DEFAULT |-> Str(<<>>), xl |-> NaN]),
      Obj([container |-> Obj(EmptyObject)]) }

\* The host's theme handed to extendTheme.
Themes ==
    { Obj(EmptyObject),
      Obj([colors |-> Str(<<"r","e","d">>), container |-> Obj([center |-> Bool(FALSE)])]),
      Obj([container |-> Obj([padding |-> Obj([DEFAULT |-> Str(<<"2","r","e","m">>),
                                               md |-> Str(<<"3","r","e","m">>),
                                               wide |-> IntNum(4)]),
                              maxWidth |-> Obj([sm |-> Str(<<"6","4","0","p","x">>)])])]),
      Obj([container |-> Obj([padding |-> Str(<<"2","r","e","m">>)])]) }

\* Numeric tokens: every string over the alphabet up to MaxTokLen, and the
\* tokens of the documented class names.
TokenAlphabet == {"0", "1", "5", "."}

Tokens ==
    (SeqsUpTo(TokenAlphabet, MaxTokLen) \ {<<>>})
    \cup {<<"2","5","6">>, <<"3","2","2">>, <<"2","1">>, <<"1","0">>}

RuleNames == {ruleTable[r].test.name : r \in 1..NumRules}

\* Class names: a rule's name (or a name of no rule), with or without a
\* leading "-", then "-" and a token.
ClassNames ==
    { minus \o name \o <<"-">> \o tok :
        minus \in {<<>>, <<"-">>},
        name \in RuleNames \cup {<<"b","g">>},
        tok \in Tokens }

SampleClassNames ==
    { <<"w","-","2","5","6">>, <<"h","-","3","2","2">>, <<"r","o","u","n","d","e","d","-","2","1">>, <<"-","m","t","-","1","0">>, <<"s","i","z","e","-","1",".","5">>, <<"g","a","p","-","x","-","5">>, <<"b","g","-","5">> }

-----------------------------------------------------------------------------
(* The state machine. *)

NoCall == [op |-> "none"]

Init ==
    /\ DEFAULT_OPTIONS = DEFAULT_OPTIONS_literal
    /\ presets = <<>>
    /\ last = NoCall

\* calculate(value, options), called directly (it is exported).
Calculate(value, opts) ==
    /\ last' = [op |-> "calculate", value |-> value, options |-> opts,
                ret |-> calculate(value, opts)]
    /\ UNCHANGED <<DEFAULT_OPTIONS, presets>>

\* setProperties(value, properties, options)
SetProperties(value, properties, opts) ==
    /\ last' = [op |-> "setProperties", value |-> value, properties |-> properties,
                options |-> opts, ret |-> setProperties(value, properties, opts)]
    /\ UNCHANGED <<DEFAULT_OPTIONS, presets>>

\* presetCalc(defaultValues)
PresetCalc(defaultValues) ==
    /\ Len(presets) < MaxPresets
    /\ presets' = Append(presets, [defaultValues |-> defaultValues,
                                   presetOptions |-> presetOptions(defaultValues)])
    /\ DEFAULT_OPTIONS' = DefaultsAfterPresetCalc(defaultValues)
    /\ last' = [op |-> "presetCalc", defaultValues |-> defaultValues]

\* preset.preflights[0].getCSS()
GetCSS(i) ==
    /\ last' = [op |-> "getCSS", preset |-> i, ret |-> getCSS(presets[i].presetOptions)]
    /\ UNCHANGED <<DEFAULT_OPTIONS, presets>>

\* The host matched className against rule r of preset i and calls its handler.
InvokeRule(i, r, className) ==
    LET m == Match(ruleTable[r].test, className)
    IN  /\ m.matched
        /\ last' = [op |-> "rule", preset |-> i, rule |-> r, className |-> className,
                    ret |-> handler(rules(presets[i].presetOptions)[r], m.groups)]
        /\ UNCHANGED <<DEFAULT_OPTIONS, presets>>

\* preset.extendTheme(theme)
ExtendTheme(i, th) ==
    LET eff == extendTheme(th, presets[i].presetOptions)
    IN  /\ last' = [op |-> "extendTheme", preset |-> i, theme |-> th,
                    ret |-> eff.ret, themeAfter |-> eff.theme]
        /\ presets' = [presets EXCEPT ![i].presetOptions = eff.presetOptions]
        /\ UNCHANGED DEFAULT_OPTIONS

\* The life of presets: built, then used by the host in any order.
Next ==
    \/ \E dv \in Overrides : PresetCalc(dv)
    \/ \E i \in 1..Len(presets) : GetCSS(i)
    \/ \E i \in 1..Len(presets), cn \in SampleClassNames :
          \E r \in MatchingRules(cn) : InvokeRule(i, r, cn)
    \/ \E i \in 1..Len(presets), th \in Themes : ExtendTheme(i, th)

Spec == Init /\ [][Next]_vars

\* The exported pure functions, each applied once to drawn inputs.
NextCalc ==
    \/ \E v \in Values, c \in Configs : last = NoCall /\ Calculate(v, c)
    \/ \E v \in Values, p \in PropertyArgs, c \in Configs :
          last = NoCall /\ SetProperties(v, p, c)

SpecCalc == Init /\ [][NextCalc]_vars

\* One preset, and one class name drawn and handed to a rule it matches.
NextRules ==
    \/ \E dv \in Overrides : Len(presets) = 0 /\ PresetCalc(dv)
    \/ \E cn \in ClassNames :
          \E r \in MatchingRules(cn) : last.op = "presetCalc" /\ InvokeRule(1, r, cn)

SpecRules == Init /\ [][NextRules]_vars

-----------------------------------------------------------------------------
(* Claims about calculate and setProperties, checked under SpecCalc.       *)

\* The options object carries min, max and the variable name, the bounds
\* being finite numbers.
HasBoundsAndName(o) ==
    /\ {"min", "max", "CSSglobalVar"} \subseteq DOMAIN o
    /\ o.min.t = "number" /\ o.min.k = "fin"
    /\ o.max.t = "number" /\ o.max.k = "fin"
    /\ o.CSSglobalVar.t = "string"

\* The expression the contract states for value v, bounds lo and hi, name t.
ContractExpression(v, lo, hi, t) ==
    <<"c","a","l","c","(">> \o v \o <<" ","*"," ","c","l","a","m","p","(">> \o lo
    \o <<"p","x",",","1","0","0","v","w",",">> \o hi \o <<"p","x",")"," ","/"," ","v","a","r","(">> \o t \o <<")",")">>

\* C1: for every finite value and every options object with min, max and
\* the variable name, calculate returns exactly
\* "calc(" v " * clamp(" min "px,100vw," max "px) / var(" t "))"; with the
\* default options, 100 and 50 give the two strings the test asserts, and
\* -0.25 and 1.5 print as decimals.
C1_CalculateFormat ==
    (last.op = "calculate" /\ last.value.k = "fin") =>
        /\ HasBoundsAndName(last.options) =>
              last.ret = Return(ContractExpression(
                            NumberToString(last.value),
                            NumberToString(last.options.min),
                            NumberToString(last.options.max),
                            last.options.CSSglobalVar.s))
        /\ last.options = DEFAULT_OPTIONS_literal =>
              /\ last.value = IntNum(100) => last.ret.v = 
                    <<"c","a","l","c","(","1","0","0"," ","*"," ","c","l","a","m","p","(","0","p","x",",","1","0","0","v","w",",","1","9","2","0","p","x",")"," ","/"," ","v","a","r","(","-","-","w","i","d","t","h","-","s","c","r","e","e","n",")",")">>
              /\ last.value = IntNum(50) => last.ret.v = 
                    <<"c","a","l","c","(","5","0"," ","*"," ","c","l","a","m","p","(","0","p","x",",","1","0","0","v","w",",","1","9","2","0","p","x",")"," ","/"," ","v","a","r","(","-","-","w","i","d","t","h","-","s","c","r","e","e","n",")",")">>
              /\ last.value = Fin(TRUE, 25, 2) => last.ret.v = 
                    <<"c","a","l","c","(","-","0",".","2","5"," ","*"," ","c","l","a","m","p","(","0","p","x",",","1","0","0","v","w",",","1","9","2","0","p","x",")"," ","/"," ","v","a","r","(","-","-","w","i","d","t","h","-","s","c","r","e","e","n",")",")">>
              /\ last.value = Fin(FALSE, 15, 1) => last.ret.v = 
                    <<"c","a","l","c","(","1",".","5"," ","*"," ","c","l","a","m","p","(","0","p","x",",","1","0","0","v","w",",","1","9","2","0","p","x",")"," ","/"," ","v","a","r","(","-","-","w","i","d","t","h","-","s","c","r","e","e","n",")",")">>

C1_Witness ==
    /\ last.op = "calculate"
    /\ last.value = IntNum(100)
    /\ last.options = DEFAULT_OPTIONS_literal
    /\ last.ret.c = "return"

\* C2: calculate throws 'Value must be a finite number' exactly when the
\* value is NaN, Infinity or -Infinity, whatever the options.
C2_ThrowsIffNotFinite ==
    last.op = "calculate" =>
        /\ last.value \in {NaN, PosInfinity, NegInfinity} => last.ret = Throw(ErrNotFinite)
        /\ last.value.k = "fin" => last.ret.c = "return"

C2_Witness ==
    /\ last.op = "calculate"
    /\ last.value = NegInfinity
    /\ last.options = EmptyObject
    /\ last.ret.c = "throw"

\* The names in a list.
Range(l) == {l[i] : i \in 1..Len(l)}

\* C3: for every finite value, setProperties on a list of names returns one
\* mapping whose keys are exactly the names of the list, each mapped to
\* calculate(value, options); on a single name, the one-key mapping.
C3_OneMappingPerCall ==
    (last.op = "setProperties" /\ last.value.k = "fin") =>
        /\ IsArray(last.properties) =>
              /\ last.ret.c = "return"
              /\ DOMAIN last.ret.v = Range(last.properties.a)
              /\ \A key \in DOMAIN last.ret.v :
                    Return(last.ret.v[key]) = calculate(last.value, last.options)
        /\ last.properties.t = "string" =>
              /\ last.ret.c = "return"
              /\ DOMAIN last.ret.v = {last.properties.s}
              /\ Return(last.ret.v[last.properties.s]) = calculate(last.value, last.options)

C3_Witness ==
    /\ last.op = "setProperties"
    /\ last.value = IntNum(50)
    /\ last.properties = Arr(<<"a", "b">>)
    /\ last.ret.c = "return"
    /\ DOMAIN last.ret.v = {"a", "b"}

\* C4: setProperties throws, and returns no mapping, whenever the
\* properties argument is neither a string nor a list, for every value.
C4_ThrowsOnOtherProperties ==
    (last.op = "setProperties" /\ ~IsArray(last.properties) /\ last.properties.t # "string") =>
        last.ret = Throw(<<"Properties must be string or string[], received: ",
                           TypeOf(last.properties)>>)

C4_Witness ==
    /\ last.op = "setProperties"
    /\ last.value = IntNum(100)
    /\ last.properties = Undefined
    /\ last.ret.c = "throw"

-----------------------------------------------------------------------------
(* Claims about the merged options and the preamble, checked under Spec.   *)

TopLevelFields == {"min", "max", "CSSglobalVar", "mobileWidth", "desktopWidth"}

\* The top-level fields an argument of presetCalc names.
Named(defaultValues) == IF defaultValues.t = "object" THEN DOMAIN defaultValues.o ELSE {}

\* C5: merging changes exactly the top-level fields the overrides name:
\* every other field, the container included, keeps its default; with
\* { max: 1200 } the result is the defaults with max = 1200.
C5_OnlyNamedFieldsChange ==
    \A i \in 1..Len(presets) :
        LET dv == presets[i].defaultValues
            po == presets[i].presetOptions
        IN  /\ DOMAIN po = DOMAIN DEFAULT_OPTIONS_literal \cup Named(dv)
            /\ \A f \in (TopLevelFields \cup {"container"}) \ Named(dv) :
                  po[f] = DEFAULT_OPTIONS_literal[f]
            /\ \A f \in TopLevelFields \cap Named(dv) : po[f] = dv.o[f]
            /\ dv = Obj([max |-> IntNum(1200)]) =>
                  po = [ CSSglobalVar |-> Str(WidthScreen), min |-> IntNum(0),
                         max |-> IntNum(1200), mobileWidth |-> IntNum(375),
                         desktopWidth |-> IntNum(768),
                         container |-> Obj([padding |->
                             Obj([DEFAULT |-> Str(<<"1","r","e","m">>), md |-> IntNum(50)])]) ]

C5_Witness ==
    \E i \in 1..Len(presets) :
        /\ presets[i].defaultValues = Obj([max |-> IntNum(1200)])
        /\ presets[i].presetOptions.max = IntNum(1200)
        /\ presets[i].presetOptions.min = IntNum(0)

\* C6: the merged padding table holds the override's value for every key
\* the override sets and the default value for every default key it does
\* not set (DEFAULT '1rem', md 50), and nothing else.
C6_PaddingDeepMerged ==
    \A i \in 1..Len(presets) :
        LET given == Own(OptGet(OptGet(presets[i].defaultValues, "container"), "padding"))
            merged == Own(OptGet(Get(presets[i].presetOptions, "container"), "padding"))
        IN  /\ DOMAIN merged = {"DEFAULT", "md"} \cup DOMAIN given
            /\ \A key \in DOMAIN given : merged[key] = given[key]
            /\ "DEFAULT" \notin DOMAIN given => merged["DEFAULT"] = Str(<<"1","r","e","m">>)
            /\ "md" \notin DOMAIN given => merged["md"] = IntNum(50)

C6_Witness ==
    \E i \in 1..Len(presets) :
        /\ presets[i].defaultValues = PaddingOverride([sm |-> IntNum(20), md |-> IntNum(80)])
        /\ presets[i].presetOptions.container.o.padding.o =
              [DEFAULT |-> Str(<<"1","r","e","m">>), sm |-> IntNum(20), md |-> IntNum(80)]

\* The value of a top-level field after merging: the override's when the
\* argument names the field, the default otherwise.
MergedField(defaultValues, f) ==
    IF f \in Named(defaultValues) THEN defaultValues.o[f] ELSE DEFAULT_OPTIONS_literal[f]

\* The preamble for a variable name, a mobile width, a desktop width and a max.
Preamble(name, mobile, desktop, max) ==
    T1 \o name \o T2 \o mobile \o T3 \o desktop \o T4 \o name \o T2 \o max \o T5

\* C7: the preamble sets the merged variable name to the merged mobileWidth
\* in the unconditional :root block and to the merged max in the :root
\* block under @media (width >= <merged desktopWidth>px); for the default
\* preset it is the text written out below.
C7_PreambleUsesMerged ==
    last.op = "getCSS" =>
        LET dv == presets[last.preset].defaultValues
        IN  /\ last.ret = Preamble(JSToString(MergedField(dv, "CSSglobalVar")),
                                   JSToString(MergedField(dv, "mobileWidth")),
                                   JSToString(MergedField(dv, "desktopWidth")),
                                   JSToString(MergedField(dv, "max")))
            /\ dv = Undefined => last.ret =
                  <<"\n"," "," "," "," "," "," "," "," "," "," "," "," ",":","r","o","o","t"," ","{","\n"," "," "," "," "," "," "," "," "," "," "," "," "," "," ","-","-","w","i","d","t","h","-","s","c","r","e","e","n",":"," ","3","7","5",";","\n"," "," "," "," "," "," "," "," "," "," "," "," ","}","\n"," "," "," "," "," "," "," "," "," "," "," "," ","@","m","e","d","i","a"," ","(","w","i","d","t","h"," ",">","="," ","7","6","8","p","x",")"," ","{","\n"," "," "," "," "," "," "," "," "," "," "," "," "," "," ",":","r","o","o","t"," ","{","\n"," "," "," "," "," "," "," "," "," "," "," "," "," "," "," "," ","-","-","w","i","d","t","h","-","s","c","r","e","e","n",":"," ","1","9","2","0",";","\n"," "," "," "," "," "," "," "," "," "," "," "," "," "," ","}","\n"," "," "," "," "," "," "," "," "," "," "," "," ","}","\n"," "," "," "," "," "," "," "," "," "," ">>

C7_Witness ==
    /\ last.op = "getCSS"
    /\ presets[last.preset].defaultValues =
          Obj([min |-> IntNum(320), max |-> IntNum(1440), CSSglobalVar |-> Str(ShortVar),
               mobileWidth |-> IntNum(390), desktopWidth |-> IntNum(1024)])
    /\ last.ret = Preamble(<<"-","-","w">>, <<"3","9","0">>, <<"1","0","2","4">>,
                           <<"1","4","4","0">>)

\* a <= b for finite numbers.
Signed(a, e) == (IF a.neg THEN -1 ELSE 1) * a.m * Pow10(e - a.e)
LessEq(a, b) ==
    LET e == IF a.e > b.e THEN a.e ELSE b.e
    IN  Signed(a, e) <= Signed(b, e)

\* C9: every merged configuration has min <= max.
C9_MinAtMostMax ==
    \A i \in 1..Len(presets) :
        LET po == presets[i].presetOptions
        IN  (po.min.t = "number" /\ po.max.t = "number") => LessEq(po.min, po.max)

\* C10: once a preset is built, no call changes its merged options or
\* DEFAULT_OPTIONS (exported as options): neither rule handlers, getCSS,
\* extendTheme, nor building further presets.
C10_ConfigurationImmutable ==
    [][ /\ DEFAULT_OPTIONS' = DEFAULT_OPTIONS
        /\ options' = DEFAULT_OPTIONS_literal
        /\ \A i \in 1..Len(presets) : presets'[i] = presets[i] ]_vars

C10_Witness ==
    /\ Len(presets) = 2
    /\ presets[1].defaultValues # presets[2].defaultValues
    /\ last.op = "extendTheme"
    /\ last.preset = 1
    /\ last.ret.c = "return"

-----------------------------------------------------------------------------
(* Claims about the rule table, checked under SpecRules.                   *)

\* The names a rule's properties argument lists.
TargetProperties(properties) ==
    IF properties.t = "array" THEN Range(properties.a) ELSE {properties.s}

\* C8: for every class name a rule matches, the rule yields one declaration
\* per target property, whose value is the calc expression built from the
\* numeric token exactly as written in the class name.
C8_TokenAsWritten ==
    last.op = "rule" =>
        LET entry == ruleTable[last.rule]
            po == presets[last.preset].presetOptions
            token == Match(entry.test, last.className).groups[2]
        IN  /\ last.ret.c = "return"
            /\ DOMAIN last.ret.v = TargetProperties(entry.properties)
            /\ \A p \in DOMAIN last.ret.v :
                  last.ret.v[p] = ContractExpression(
                      token,
                      JSToString(OrDefault(Get(po, "min"), IntNum(0))),
                      JSToString(OrDefault(Get(po, "max"), IntNum(1920))),
                      JSToString(OrDefault(Get(po, "CSSglobalVar"), Str(WidthScreen))))

\* The token a rule's pattern captures from the class name of the last call.
CapturedToken == Match(ruleTable[last.rule].test, last.className).groups[2]

\* C11: for every rule and every class name its pattern matches, the
\* captured token converts to a finite number, so the handler returns a
\* property mapping and does not throw.
C11_CapturedTokenIsNumeric ==
    last.op = "rule" =>
        /\ Number(CapturedToken).k = "fin"
        /\ last.ret.c = "return"
        /\ DOMAIN last.ret.v = TargetProperties(ruleTable[last.rule].properties)

\* The margin rules: those whose pattern starts with -?.
MarginRules == {r \in 1..NumRules : ruleTable[r].test.optionalMinus}

\* -n
Negated(v) == [v EXCEPT !.neg = ~v.neg]

\* C12: a margin class name with a leading "-" and a numeral n yields the
\* margin expression for -n, which differs from the expression the class
\* name without the "-" yields (n not zero).
C12_NegativeMargins ==
    ( /\ last.op = "rule"
      /\ last.rule \in MarginRules
      /\ Head(last.className) = "-"
      /\ Number(CapturedToken).k = "fin" ) =>
        LET po == presets[last.preset].presetOptions
            n == Number(CapturedToken)
            plain == handler(rules(po)[last.rule],
                             Match(ruleTable[last.rule].test, Tail(last.className)).groups)
        IN  /\ last.ret.c = "return"
            /\ \A p \in DOMAIN last.ret.v :
                  Return(last.ret.v[p]) = calculate(Negated(n), po)
            /\ n.m # 0 => last.ret # plain

-----------------------------------------------------------------------------
(* Claims about extendTheme and the agreement of the preset's outputs,     *)
(* checked under Spec.                                                     *)

\* The entries of the incoming theme's container padding.
IncomingPadding(th) == Entries(OptGet(OptGet(th, "container"), "padding"))

\* The preset's configured padding table.
ConfiguredPadding(po) == Own(OptGet(Get(po, "container"), "padding"))

\* The breakpoints whose configured padding is a number.
NumericPadding(po) ==
    {key \in {"sm", "md", "lg", "xl", "2xl"} :
        key \in DOMAIN ConfiguredPadding(po) /\ ConfiguredPadding(po)[key].t = "number"}

\* The configured DEFAULT padding is a non-empty string.
HasDefaultPadding(po) ==
    /\ "DEFAULT" \in DOMAIN ConfiguredPadding(po)
    /\ ConfiguredPadding(po)["DEFAULT"].t = "string"
    /\ ConfiguredPadding(po)["DEFAULT"].s # <<>>

\* C13: extendTheme returns a container padding table that (i) keeps every
\* key of the incoming theme's padding, its value as a string, unless
\* overridden by (ii) or (iii); (ii) has the configured DEFAULT when that is
\* a non-empty string; (iii) maps each of sm, md, lg, xl, 2xl whose
\* configured padding is a number to calculate(thatNumber, presetOptions)
\* (whose error, for a number that is not finite, is extendTheme's);
\* (iv) has no other key.  The incoming theme is left as it was.
C13_ContainerPaddingTable ==
    last.op = "extendTheme" =>
        LET po == presets[last.preset].presetOptions
            incoming == IncomingPadding(last.theme)
            numeric == NumericPadding(po)
            default == IF HasDefaultPadding(po) THEN {"DEFAULT"} ELSE {}
        IN  /\ last.themeAfter = last.theme
            /\ (\A key \in numeric : ConfiguredPadding(po)[key].k = "fin") <=>
                  last.ret.c = "return"
            /\ last.ret.c = "return" =>
                  LET table == last.ret.v.o.container.o.padding.o
                  IN  /\ DOMAIN table = DOMAIN incoming \cup numeric \cup default
                      /\ \A key \in numeric :
                            /\ table[key].t = "string"
                            /\ Return(table[key].s) = calculate(ConfiguredPadding(po)[key], po)
                      /\ \A key \in default : table[key] = ConfiguredPadding(po)[key]
                      /\ \A key \in (DOMAIN incoming \ numeric) \ default :
                            table[key] = IF incoming[key].t = "string" THEN incoming[key]
                                         ELSE Str(JSToString(incoming[key]))

C13_Witness ==
    /\ last.op = "extendTheme"
    /\ presets[last.preset].defaultValues =
          PaddingOverride([sm |-> IntNum(20), md |-> IntNum(80)])
    /\ DOMAIN IncomingPadding(last.theme) = {"DEFAULT", "md", "wide"}
    /\ last.ret.c = "return"
    /\ DOMAIN last.ret.v.o.container.o.padding.o = {"DEFAULT", "sm", "md", "wide"}
    /\ last.ret.v.o.container.o.padding.o["wide"] = Str(<<"4">>)
    /\ last.ret.v.o.container.o.padding.o["DEFAULT"] = Str(<<"1","r","e","m">>)

-----------------------------------------------------------------------------
(* Rule dispatch, checked under SpecRules.                                 *)

\* C14: at most one pattern of the rule table matches a class name: the
\* rule the host invoked is the only one that matches (gap-x-5 only the
\* column-gap rule, rounded-tl-1 only the top-left-radius rule, max-w-10
\* only the max-width rule), and no two rules share a name.
C14_AtMostOneRuleMatches ==
    /\ Cardinality(RuleNames) = NumRules
    /\ last.op = "rule" =>
          /\ \A r \in 1..NumRules :
                Match(ruleTable[r].test, last.className).matched => r = last.rule
          /\ last.className = <<"g","a","p","-","x","-","5">> =>
                ruleTable[last.rule].properties = Str("column-gap")
          /\ last.className = <<"r","o","u","n","d","e","d","-","t","l","-","1">> =>
                ruleTable[last.rule].properties = Str("border-top-left-radius")
          /\ last.className = <<"m","a","x","-","w","-","1","0">> =>
                ruleTable[last.rule].properties = Str("max-width")

C14_Witness ==
    /\ last.op = "rule"
    /\ last.className = <<"m","a","x","-","w","-","1","0">>
    /\ ruleTable[last.rule].properties = Str("max-width")
    /\ last.ret.c = "return"

-----------------------------------------------------------------------------
(* The agreement of a preset's three outputs, checked under Spec.          *)

\* The first place pattern occurs in s.
IndexOf(pattern, s) ==
    CHOOSE i \in 1..(Len(s) - Len(pattern) + 1) :
        /\ SubSeq(s, i, i + Len(pattern) - 1) = pattern
        /\ \A j \in 1..(i - 1) : SubSeq(s, j, j + Len(pattern) - 1) # pattern

AfterMin == <<"p","x",",","1","0","0","v","w",",">>
AfterMax == <<"p","x",")"," ","/"," ","v","a","r","(">>

\* The max printed inside clamp(), and the name inside var(), of a calc expression.
ClampMax(expr) ==
    SubSeq(expr, IndexOf(AfterMin, expr) + Len(AfterMin), IndexOf(AfterMax, expr) - 1)
VarName(expr) ==
    SubSeq(expr, IndexOf(AfterMax, expr) + Len(AfterMax), Len(expr) - 2)

\* The expression the rules of a preset print (here the first rule, for the token 1).
RuleExpression(po) ==
    handler(rules(po)[1], <<<<"t","e","x","t","-","1">>, <<"1">>>>).v["font-size"]

\* C15: for every argument of presetCalc, the max inside every rule's
\* clamp(), the max the preamble assigns to the variable and the 2xl
\* container max-width are the same number, and the name in var(...) is the
\* one the preamble declares.
C15_OutputsAgree ==
    /\ last.op = "getCSS" =>
          LET po == presets[last.preset].presetOptions
          IN  last.ret = Preamble(VarName(RuleExpression(po)),
                                  JSToString(Get(po, "mobileWidth")),
                                  JSToString(Get(po, "desktopWidth")),
                                  ClampMax(RuleExpression(po)))
    /\ (last.op = "extendTheme" /\ last.ret.c = "return") =>
          LET po == presets[last.preset].presetOptions
          IN  last.ret.v.o.container.o.maxWidth.o["2xl"] =
                 Str(ClampMax(RuleExpression(po)) \o <<"p","x">>)
    /\ (last.op = "rule" /\ last.ret.c = "return") =>
          LET po == presets[last.preset].presetOptions
          IN  \A p \in DOMAIN last.ret.v :
                 getCSS(po) = Preamble(VarName(last.ret.v[p]),
                                       JSToString(Get(po, "mobileWidth")),
                                       JSToString(Get(po, "desktopWidth")),
                                       ClampMax(last.ret.v[p]))

====
